---- MODULE Spec2Model ----
(***************************************************************************)
(* Financial projection and optimisation engine of finwise:                *)
(*   backend/app/services/cashflow_forecaster.py  (CashFlowForecaster)     *)
(*   backend/app/services/financial_simulator.py  (FinancialSimulator)     *)
(*   backend/app/services/debt_optimizer.py       (DebtOptimizer)          *)
(*   backend/app/services/goal_projector.py       (GoalProjector)          *)
(*                                                                         *)
(* Money is held in integer cents.  Where the code divides (a monthly      *)
(* change spread over 30 days, a percentage, an interest rate) the value   *)
(* is held in a finer fixed-point unit named at its use, and round(x, 2)   *)
(* is the rounding back to whole cents.  Python's round() resolves an      *)
(* exact half by the binary representation of the float; Round below       *)
(* resolves it to the even neighbour.                                      *)
(*                                                                         *)
(* Dates are day numbers.  The three components are independent; each has  *)
(* its own specification (SpecForecast, SpecDebt, SpecGoal) over the one   *)
(* set of variables, the other components' variables staying idle.         *)
(***************************************************************************)
EXTENDS Integers, Sequences, FiniteSets, TLC

VARIABLES
    \* ---- the store (rows of one user) ----
    transactions,       \* Transaction rows: [id, type, amount, date]
    recurring,          \* RecurringTransaction rows: [id, type, amount, frequency, next_date, is_active]
    notifications,      \* Notification rows, in insertion order: [type, created_at, runway_days, min_balance]
    today,              \* the day datetime.utcnow() falls on
    \* ---- arguments of the forecaster / simulator calls ----
    starting_balance,
    forecast_days,
    current_date,
    scenario_type,
    parameters,
    \* ---- what the calls produced ----
    forecast,           \* result of the last forecast_balance call made directly
    scenario,           \* `scenario` dict of the last simulate_scenario call
    results,            \* what each simulate_scenario call returned (or raised), in call order
    \* ---- debt optimizer ----
    debts,              \* argument `debts` of optimize_debt_strategy
    extra_budget,       \* argument `extra_monthly_budget`
    sched,              \* calculate_repayment_schedule in progress
    strat,              \* _simulate_strategy in progress, one record per strategy
    optimization,       \* result of optimize_debt_strategy
    \* ---- goal projector ----
    goal,               \* arguments of calculate_goal_projection
    projection,         \* its result
    \* ---- goal milestone adjuster ----
    goals,              \* Goal rows: [id, name, target_amount, current_amount, target_date]
    goal_id,            \* argument `goal_id` of calculate_adaptive_milestones
    adaptive,           \* what calculate_adaptive_milestones returned or raised
    \* ---- requests served at the same time, each in its own database session ----
    sessions            \* per request: forecast_balance runs left, and where the current one stands

storeVars == <<transactions, recurring, notifications, today>>
callVars == <<starting_balance, forecast_days, current_date, scenario_type, parameters>>
outVars == <<forecast, scenario, results>>
sessionVars == <<sessions>>
forecastVars == <<storeVars, callVars, outVars, sessionVars>>
debtVars == <<debts, extra_budget, sched, strat, optimization>>
goalVars == <<goal, projection, goals, goal_id, adaptive>>
vars == <<forecastVars, debtVars, goalVars>>

\* Python's None, where a dict or a list is expected
None == [none |-> TRUE]

(***************************************************************************)
(* Arithmetic helpers                                                      *)
(***************************************************************************)
Max(a, b) == IF a >= b THEN a ELSE b
Min(a, b) == IF a <= b THEN a ELSE b
Abs(a) == IF a >= 0 THEN a ELSE -a

\* round(n / d) to the nearest integer, d > 0, an exact half to the even neighbour
Round(n, d) ==
    LET q == n \div d
        r == n % d
    IN IF 2 * r < d THEN q
       ELSE IF 2 * r > d THEN q + 1
       ELSE IF q % 2 = 0 THEN q ELSE q + 1

\* ceil(n / d), d > 0
Ceil(n, d) == -((-n) \div d)

Last(seq) == seq[Len(seq)]

\* F applied to the value of e, e being evaluated once
Bind(e, F(_)) == CHOOSE v \in {F(x) : x \in {e}} : TRUE

RECURSIVE SumAmount(_)
SumAmount(rows) ==
    IF rows = {} THEN 0
    ELSE LET r == CHOOSE x \in rows : TRUE
         IN r.amount + SumAmount(rows \ {r})

RECURSIVE SumField(_, _)
SumField(series, f) ==
    IF series = <<>> THEN 0
    ELSE Head(series)[f] + SumField(Tail(series), f)

(***************************************************************************)
(* CashFlowForecaster  (cashflow_forecaster.py)                            *)
(***************************************************************************)
\* lookback_days = 90
LookbackDays == 90

\* _get_historical_averages(...)["daily_average"], in cents per day
HistoricalDailyAverage(txs, cur, type) ==
    LET start_date == cur - LookbackDays
        rows == {t \in txs : t.type = type /\ t.date >= start_date /\ t.date < cur}
        total == SumAmount(rows)
        span == cur - start_date
        days == IF span = 0 THEN 1 ELSE span
    IN IF total = 0 THEN 0 ELSE Round(total, days)

\* _is_due_on_date: only the row's next_date itself is an occurrence
IsDueOnDate(rec, check_date) == rec.next_date = check_date

\* the query of forecast_balance: the user's active recurring rows
ActiveRecurring(recs) == {r \in recs : r.is_active = TRUE}

\* the inner loop of forecast_balance for one projection date and one direction
ScheduledAmount(recs, projection_date, type) ==
    SumAmount({r \in ActiveRecurring(recs) :
                 IsDueOnDate(r, projection_date) /\ r.type = type})

DayIncome(recs, projection_date, avg) ==
    LET day_income == ScheduledAmount(recs, projection_date, "income")
    IN IF day_income = 0 THEN avg ELSE day_income

DayExpenses(recs, projection_date, avg) ==
    LET day_expenses == ScheduledAmount(recs, projection_date, "expense")
    IN IF day_expenses = 0 THEN avg ELSE day_expenses

\* len(range(forecast_days + 1))
RangeLenOff(n) == n + 2
RangeLen(n) == n + 1

\* the day-by-day projection loop, from day_offset to the end of the range
RECURSIVE ProjectFrom(_, _, _, _)
ProjectFrom(day_offset, current_balance, acc, c) ==
    IF day_offset >= c.len THEN acc
    ELSE LET projection_date == c.cur + day_offset
             day_income == DayIncome(c.recs, projection_date, c.avg_income)
             day_expenses == DayExpenses(c.recs, projection_date, c.avg_expenses)
         IN ProjectFrom(day_offset + 1,
                        current_balance + day_income - day_expenses,
                        Append(acc, [date |-> projection_date,
                                     balance |-> current_balance + day_income - day_expenses,
                                     income |-> day_income,
                                     expenses |-> day_expenses,
                                     net |-> day_income - day_expenses]),
                        c)

\* The loop is evaluated a stretch of passes at a time: ProjectFrom runs the
\* passes of one stretch, and the next stretch resumes from the balance and
\* the list the previous one left.
Stretch == 30

RECURSIVE ProjectStretches(_, _, _, _)
ProjectStretches(day_offset, current_balance, acc, c) ==
    IF day_offset >= c.len THEN acc
    ELSE Bind(ProjectFrom(day_offset, current_balance, acc,
                          [c EXCEPT !.len = Min(c.len, day_offset + Stretch)]),
              LAMBDA daily :
                ProjectStretches(day_offset + Stretch, Last(daily).balance, daily, c))

\* min(daily_balances, key=balance): the first entry holding the least balance
MinBalanceDay(daily) ==
    LET i == CHOOSE k \in 1..Len(daily) :
                 /\ \A j \in 1..Len(daily) : daily[k].balance <= daily[j].balance
                 /\ \A j \in 1..(k - 1) : daily[j].balance > daily[k].balance
    IN daily[i]

\* runway_days when no day has balance <= 0
RunwaySentinelOff(n) == n
RunwaySentinel(n) == n + 1

\* the runway loop shared by the forecaster and every scenario
RunwayDaysBelowZero(daily, n) ==
    IF \E i \in 1..Len(daily) : daily[i].balance < 0
    THEN (CHOOSE i \in 1..Len(daily) :
             /\ daily[i].balance < 0
             /\ \A j \in 1..(i - 1) : daily[j].balance >= 0) - 1
    ELSE RunwaySentinel(n)
RunwayDays(daily, n) ==
    IF \E i \in 1..Len(daily) : daily[i].balance <= 0
    THEN (CHOOSE i \in 1..Len(daily) :
             /\ daily[i].balance <= 0
             /\ \A j \in 1..(i - 1) : daily[j].balance > 0) - 1
    ELSE RunwaySentinel(n)

\* runway_days <= 30 is the critical threshold
CriticalRunway == 30

WarningsBoth(runway_days, min_day, start) ==
    (IF runway_days <= CriticalRunway
     THEN <<[type |-> "critical", days_until |-> runway_days]>> ELSE <<>>)
    \o (IF 5 * min_day.balance < start
        THEN <<[type |-> "warning", min_balance |-> min_day.balance, date |-> min_day.date]>>
        ELSE <<>>)
Warnings(runway_days, min_day, start) ==
    IF runway_days <= CriticalRunway
    THEN <<[type |-> "critical", days_until |-> runway_days]>>
    \* min_balance < starting_balance * 0.2
    ELSE IF 5 * min_day.balance < start
         THEN <<[type |-> "warning", min_balance |-> min_day.balance, date |-> min_day.date]>>
         ELSE <<>>

SummaryPeriodExclusive(daily, period_days, start, cur) ==
    [period |-> period_days,
     period_start |-> cur,
     period_end |-> cur + period_days,
     starting_balance |-> start,
     ending_balance |-> daily[period_days + 1].balance,
     total_income |-> SumField(SubSeq(daily, 1, period_days), "income"),
     total_expenses |-> SumField(SubSeq(daily, 1, period_days), "expenses"),
     net_change |-> daily[period_days + 1].balance - start]
SummaryPeriod(daily, period_days, start, cur) ==
    [period |-> period_days,
     period_start |-> cur,
     period_end |-> cur + period_days,
     starting_balance |-> start,
     ending_balance |-> daily[period_days + 1].balance,
     total_income |-> SumField(SubSeq(daily, 1, period_days + 1), "income"),
     total_expenses |-> SumField(SubSeq(daily, 1, period_days + 1), "expenses"),
     net_change |-> daily[period_days + 1].balance - start]

RECURSIVE SummaryPeriods(_, _, _, _, _)
SummaryPeriods(periods, daily, n, start, cur) ==
    IF periods = <<>> THEN <<>>
    ELSE LET rest == SummaryPeriods(Tail(periods), daily, n, start, cur)
         IN IF Head(periods) <= n
            THEN <<SummaryPeriod(daily, Head(periods), start, cur)>> \o rest
            ELSE rest

\* the dict forecast_balance returns, from the metrics computed after the loop
ForecastDict(c, daily, m) ==
    [starting_balance |-> c.start,
     forecast_days |-> c.n,
     forecast_start_date |-> c.cur,
     forecast_end_date |-> c.cur + c.n,
     daily_balances |-> daily,
     min_balance |-> m.min_day.balance,
     min_balance_date |-> m.min_day.date,
     runway_days |-> m.runway_days,
     warnings |-> Warnings(m.runway_days, m.min_day, c.start),
     summary_periods |-> SummaryPeriods(<<30, 60, 90>>, daily, c.n, c.start, c.cur),
     historical_averages |-> [daily_income |-> c.avg_income,
                              daily_expenses |-> c.avg_expenses]]

\* the value forecast_balance returns
ForecastBalance(txs, recs, start, n, cur) ==
    Bind([recs |-> recs, cur |-> cur, start |-> start, n |-> n, len |-> RangeLen(n),
          avg_income |-> HistoricalDailyAverage(txs, cur, "income"),
          avg_expenses |-> HistoricalDailyAverage(txs, cur, "expense")],
         LAMBDA c :
           Bind(ProjectStretches(0, start, <<>>, c),
                LAMBDA daily :
                  Bind([min_day |-> MinBalanceDay(daily),
                        runway_days |-> RunwayDays(daily, n)],
                       LAMBDA m : ForecastDict(c, daily, m))))

\* _create_low_balance_notification: one row per day at most, checked then inserted
CreateLowBalanceNotification(notifs, now, runway_days, projected_min_balance) ==
    IF \E i \in 1..Len(notifs) :
          notifs[i].type = "low_balance" /\ notifs[i].created_at >= now
    THEN notifs
    ELSE Append(notifs, [type |-> "low_balance", created_at |-> now,
                         runway_days |-> runway_days,
                         min_balance |-> projected_min_balance])

\* the two statements of _create_low_balance_notification: the query for a
\* row of today, and the row that db.add and db.commit insert
ExistingToday(notifs, now) ==
    \E i \in 1..Len(notifs) :
        notifs[i].type = "low_balance" /\ notifs[i].created_at >= now

LowBalanceRow(now, runway_days, projected_min_balance) ==
    [type |-> "low_balance", created_at |-> now,
     runway_days |-> runway_days, min_balance |-> projected_min_balance]

\* the rows of the store after a forecast_balance call that computed `res`
StoreAfterForecastMisfiled(store, now, res) ==
    IF res.runway_days <= CriticalRunway
    THEN [store EXCEPT !.transactions =
             @ \cup {[id |-> "low_balance", type |-> "expense",
                      amount |-> 9000, date |-> res.forecast_start_date - 1]}]
    ELSE store
StoreAfterForecast(store, now, res) ==
    IF res.runway_days <= CriticalRunway
    THEN [store EXCEPT !.notifications =
             CreateLowBalanceNotification(@, now, res.runway_days, res.min_balance)]
    ELSE store


(***************************************************************************)
(* FinancialSimulator  (financial_simulator.py)                            *)
(*                                                                         *)
(* Inside a scenario a day's figures are held in units of 1/300 cent, so   *)
(* that change_amount / 30 and income * (1 + change_amount / 100) are      *)
(* whole numbers of units; ToCents is round(x, 2).                         *)
(***************************************************************************)
Fine(cents) == cents * 300
ToCents(units) == Round(units, 300)

\* dict.get(key, default)
Get(dict, key, default) == IF key \in DOMAIN dict THEN dict[key] ELSE default

\* parameters.get("starting_balance", 10000), in cents
DefaultStartingBalance == 1000000

\* frequency_map.get(frequency, 30)
DaysBetween(frequency) ==
    CASE frequency = "daily" -> 1
      [] frequency = "weekly" -> 7
      [] frequency = "biweekly" -> 14
      [] frequency = "monthly" -> 30
      [] frequency = "quarterly" -> 90
      [] frequency = "yearly" -> 365
      [] OTHER -> 30

\* a day's adjusted income and expenses (in units), per scenario kind;
\* i is the index of the day in the baseline series, from 0
AdjustedIncomeChangeFlat(p, i, day) ==
    LET change_amount == Get(p, "change_amount", 0)
        change_type == Get(p, "change_type", "fixed")
    IN [income |-> IF change_type = "percentage"
                   THEN day.income * (100 + change_amount) * 3
                   ELSE Fine(day.income),
        expenses |-> Fine(day.expenses)]
AdjustedIncomeChange(p, i, day) ==
    LET change_amount == Get(p, "change_amount", 0)
        change_type == Get(p, "change_type", "fixed")
    IN [income |-> IF change_type = "percentage"
                   THEN day.income * (100 + change_amount) * 3
                   ELSE Fine(day.income) + change_amount * 10,
        expenses |-> Fine(day.expenses)]

AdjustedExpenseChangeAbs(p, i, day) ==
    LET change_amount == Get(p, "change_amount", 0)
    IN [income |-> Fine(day.income),
        expenses |-> Max(0, Fine(day.expenses) + Abs(change_amount) * 10)]
AdjustedExpenseChangeNoFloor(p, i, day) ==
    LET change_amount == Get(p, "change_amount", 0)
    IN [income |-> Fine(day.income),
        expenses |-> Fine(day.expenses) + change_amount * 10]
AdjustedExpenseChange(p, i, day) ==
    LET change_amount == Get(p, "change_amount", 0)
    IN [income |-> Fine(day.income),
        expenses |-> Max(0, Fine(day.expenses) + change_amount * 10)]

AdjustedNewRecurring(p, i, day) ==
    LET amount == Get(p, "amount", 0)
        days_between == DaysBetween(Get(p, "frequency", "monthly"))
        trans_type == Get(p, "type", "expense")
        hit == (i % days_between = 0)
    IN [income |-> Fine(day.income)
                     + IF hit /\ trans_type = "income" THEN Fine(amount) ELSE 0,
        expenses |-> Fine(day.expenses)
                     + IF hit /\ trans_type # "income" THEN Fine(amount) ELSE 0]

Adjusted(kind, p, i, day) ==
    CASE kind = "income_change" -> AdjustedIncomeChange(p, i, day)
      [] kind = "expense_change" -> AdjustedExpenseChange(p, i, day)
      [] kind = "new_recurring" -> AdjustedNewRecurring(p, i, day)

\* the loop over baseline["daily_balances"] that builds modified_balances
RECURSIVE ModifyFrom(_, _, _, _, _, _)
ModifyFrom(i, current_balance, acc, daily, kind, p) ==
    IF i >= Len(daily) THEN [current_balance |-> current_balance, modified_balances |-> acc]
    ELSE LET day == daily[i + 1]
             adj == Adjusted(kind, p, i, day)
         IN ModifyFrom(i + 1,
                       current_balance + adj.income - adj.expenses,
                       Append(acc, [date |-> day.date,
                                    balance |-> ToCents(current_balance + adj.income - adj.expenses),
                                    income |-> ToCents(adj.income),
                                    expenses |-> ToCents(adj.expenses),
                                    net |-> ToCents(adj.income - adj.expenses)]),
                       daily, kind, p)

\* the same loop, a stretch of passes at a time
RECURSIVE ModifyStretches(_, _, _, _, _, _)
ModifyStretches(i, current_balance, acc, daily, kind, p) ==
    IF i >= Len(daily) THEN acc
    ELSE Bind(ModifyFrom(i, current_balance, acc,
                         SubSeq(daily, 1, Min(Len(daily), i + Stretch)), kind, p),
              LAMBDA left :
                ModifyStretches(i + Stretch, left.current_balance, left.modified_balances,
                                daily, kind, p))

\* the part of _simulate_* after its own forecast_balance call
Modified(kind, baseline, start, p, n) ==
    Bind(ModifyStretches(0, Fine(start), <<>>, baseline.daily_balances, kind, p),
         LAMBDA modified_balances :
           [daily_balances |-> modified_balances,
            runway_days |-> RunwayDays(modified_balances, n)])

SimulateIncomeChange(baseline, start, p, n) == Modified("income_change", baseline, start, p, n)

SimulateExpenseChange(baseline, start, p, n) == Modified("expense_change", baseline, start, p, n)

SimulateBudgetCut(baseline, start, p, n) ==
    SimulateExpenseChange(baseline, start,
        [change_amount |-> -Get(p, "estimated_monthly_savings", 0)], n)

SimulateNewRecurring(baseline, start, p, n) == Modified("new_recurring", baseline, start, p, n)

SimulateGoalAcceleration(baseline, start, p, n) ==
    SimulateExpenseChange(baseline, start,
        [change_amount |-> Get(p, "additional_monthly_contribution", 0)], n)

ScenarioTypes ==
    {"income_change", "expense_change", "budget_cut", "new_recurring", "goal_acceleration"}

\* the dispatch of simulate_scenario
SimulateByType(type, baseline, start, p, n) ==
    CASE type = "income_change" -> SimulateIncomeChange(baseline, start, p, n)
      [] type = "expense_change" -> SimulateExpenseChange(baseline, start, p, n)
      [] type = "budget_cut" -> SimulateBudgetCut(baseline, start, p, n)
      [] type = "new_recurring" -> SimulateNewRecurring(baseline, start, p, n)
      [] type = "goal_acceleration" -> SimulateGoalAcceleration(baseline, start, p, n)

\* _compare_scenarios; the percentage is in hundredths of a percent
CompareScenariosNotWorse(baseline, scen) ==
    Bind(<<Last(baseline.daily_balances).balance, Last(scen.daily_balances).balance>>,
         LAMBDA ends :
           LET baseline_end == ends[1]
               scenario_end == ends[2]
               balance_diff == scenario_end - baseline_end
           IN [balance_difference |-> balance_diff,
               balance_change_percentage |->
                   IF baseline_end > 0 THEN Round(balance_diff * 10000, baseline_end)
                   ELSE IF baseline_end < 0 THEN Round(-balance_diff * 10000, -baseline_end)
                   ELSE 0,
               runway_difference_days |-> scen.runway_days - baseline.runway_days,
               is_improvement |-> balance_diff >= 0])
CompareScenarios(baseline, scen) ==
    Bind(<<Last(baseline.daily_balances).balance, Last(scen.daily_balances).balance>>,
         LAMBDA ends :
           LET baseline_end == ends[1]
               scenario_end == ends[2]
               balance_diff == scenario_end - baseline_end
           IN [balance_difference |-> balance_diff,
               balance_change_percentage |->
                   IF baseline_end > 0 THEN Round(balance_diff * 10000, baseline_end)
                   ELSE IF baseline_end < 0 THEN Round(-balance_diff * 10000, -baseline_end)
                   ELSE 0,
               runway_difference_days |-> scen.runway_days - baseline.runway_days,
               is_improvement |-> balance_diff > 0])

\* _generate_recommendation: which template, and the amount it prints
GenerateRecommendation(comparison, type) ==
    IF comparison.is_improvement
    THEN [template |-> "improves", amount |-> comparison.balance_difference]
    ELSE [template |-> "reduces", amount |-> Abs(comparison.balance_difference)]

Totals(f) ==
    [ending_balance |-> Last(f.daily_balances).balance,
     total_income |-> SumField(f.daily_balances, "income"),
     total_expenses |-> SumField(f.daily_balances, "expenses"),
     runway_days |-> f.runway_days]

\* simulate_scenario against `store` at time `now`:
\* the store it leaves, the scenario dict it built and what it returned
\* the dict simulate_scenario returns
ScenarioDict(type, p, n, baseline, scen) ==
    Bind(CompareScenarios(baseline, scen),
         LAMBDA comparison :
           [scenario_type |-> type,
            parameters |-> p,
            forecast_days |-> n,
            baseline |-> Totals(baseline),
            scenario |-> Totals(scen),
            comparison |-> comparison,
            recommendation |-> GenerateRecommendation(comparison, type)])

\* the scenario branch of simulate_scenario: the _simulate_* call, which runs
\* forecast_balance once more on the store the baseline run left, then the comparison
RunScenario(store1, now, type, p, n, cur, start, baseline) ==
    Bind(ForecastBalance(store1.transactions, store1.recurring, start, n, cur),
         LAMBDA inner :
           Bind(SimulateByType(type, inner, start, p, n),
                LAMBDA scen :
                  [store |-> StoreAfterForecast(store1, now, inner),
                   scenario |-> scen,
                   returned |-> ScenarioDict(type, p, n, baseline, scen)]))

\* simulate_scenario against `store` at time `now`:
\* the store it leaves, the scenario dict it built and what it returned or raised
SimulateScenario(store, now, type, p, n, cur) ==
    Bind(Get(p, "starting_balance", DefaultStartingBalance),
         LAMBDA start :
           Bind(ForecastBalance(store.transactions, store.recurring, start, n, cur),
                LAMBDA baseline :
                  Bind(StoreAfterForecast(store, now, baseline),
                       LAMBDA store1 :
                         IF type \notin ScenarioTypes
                         THEN [store |-> store1, scenario |-> None,
                               returned |-> [error |-> "Unknown scenario type"]]
                         ELSE RunScenario(store1, now, type, p, n, cur, start, baseline))))


(***************************************************************************)
(* DebtOptimizer  (debt_optimizer.py)                                      *)
(*                                                                         *)
(* Balances, payments and interest are held in points of 1/1000 cent; a    *)
(* product with the monthly rate is rounded to the nearest point, which    *)
(* stands for the float rounding of the multiplication.  Rates are annual  *)
(* percentages, whole numbers.                                             *)
(***************************************************************************)
Points(cents) == cents * 1000
PointsToCents(points) == Round(points, 1000)

\* max_months = 360, and the `months < 360` of _simulate_strategy
MaxMonths == 360

\* balance * (annual_interest_rate / 100 / 12), without overflowing a machine integer
MonthlyInterest(balance, annual_rate) ==
    (balance \div 1200) * annual_rate + Round((balance % 1200) * annual_rate, 1200)

\* ---- calculate_repayment_schedule ----

\* principal_payment of one month
PrincipalPaymentUncapped(payment, interest_payment, remaining_balance) ==
    Max(0, payment - interest_payment)
PrincipalPaymentNoFloor(payment, interest_payment, remaining_balance) ==
    Min(payment - interest_payment, remaining_balance)
PrincipalPayment(payment, interest_payment, remaining_balance) ==
    LET principal_payment == Min(payment - interest_payment, remaining_balance)
    IN IF principal_payment < 0 THEN 0 ELSE principal_payment

\* the state before the first pass of the loop
ScheduleStart(principal, annual_rate, payment) ==
    [status |-> "running",
     principal |-> principal, annual_rate |-> annual_rate, payment |-> payment,
     month |-> 0, remaining_balance |-> principal, schedule |-> <<>>]

\* one pass of the for loop, month = sc.month + 1
ScheduleStep(sc) ==
    LET month == sc.month + 1
        interest_payment == MonthlyInterest(sc.remaining_balance, sc.annual_rate)
        principal_payment == PrincipalPayment(sc.payment, interest_payment, sc.remaining_balance)
        remaining_balance == sc.remaining_balance - principal_payment
    IN [sc EXCEPT !.month = month,
                  !.remaining_balance = remaining_balance,
                  !.schedule = Append(@, [month |-> month,
                                          date |-> month,
                                          payment |-> PointsToCents(sc.payment),
                                          principal |-> PointsToCents(principal_payment),
                                          interest |-> PointsToCents(interest_payment),
                                          remaining_balance |-> PointsToCents(Max(0, remaining_balance))])]

\* ---- _simulate_strategy ----

\* a sorts strictly before b under the strategy's key
PrecedesAscending(a, b, strategy) ==
    IF strategy = "avalanche"
    THEN a.interestRate < b.interestRate
    ELSE a.remainingAmount < b.remainingAmount
Precedes(a, b, strategy) ==
    IF strategy = "avalanche"
    THEN a.interestRate > b.interestRate
    ELSE a.remainingAmount < b.remainingAmount

\* x put into the sorted list, behind every element it does not strictly precede
RECURSIVE InsertSorted(_, _, _)
InsertSorted(x, sorted, strategy) ==
    IF sorted = <<>> THEN <<x>>
    ELSE IF Precedes(x, Head(sorted), strategy) THEN <<x>> \o sorted
    ELSE <<Head(sorted)>> \o InsertSorted(x, Tail(sorted), strategy)

\* sorted(debts, key=...), a stable sort
RECURSIVE SortedDebts(_, _)
SortedDebts(ds, strategy) ==
    IF ds = <<>> THEN <<>>
    ELSE InsertSorted(Last(ds), SortedDebts(SubSeq(ds, 1, Len(ds) - 1), strategy), strategy)

\* the locals of the per-debt loop before its while loop; `carried` is the
\* interest_paid the previous debt ended with
DebtLocalsCarried(debt, extra, carried) ==
    [remaining |-> debt.remainingAmount,
     rate |-> debt.interestRate,
     payment |-> debt.monthlyPayment + extra,
     months |-> 0,
     interest_paid |-> carried]
DebtLocals(debt, extra, carried) ==
    [remaining |-> debt.remainingAmount,
     rate |-> debt.interestRate,
     payment |-> debt.monthlyPayment + extra,
     months |-> 0,
     interest_paid |-> 0]

\* one pass of the while loop
WhileStep(l) ==
    LET interest == MonthlyInterest(l.remaining, l.rate)
        principal == Min(l.payment - interest, l.remaining)
    IN [l EXCEPT !.remaining = @ - principal,
                 !.interest_paid = @ + interest,
                 !.months = @ + 1]

WhileGuardUncapped(l) == l.remaining > 0
WhileGuard(l) == l.remaining > 0 /\ l.months < MaxMonths

\* the state of _simulate_strategy when it enters its for loop
StrategyStart(ds, extra, strategy, avalanche_result) ==
    LET sorted_debts == SortedDebts(ds, strategy)
    IN [strategy |-> strategy,
        sorted_debts |-> sorted_debts,
        idx |-> 1,
        l |-> DebtLocals(sorted_debts[1], extra, 0),
        total_months |-> 0,
        total_interest |-> 0,
        debt_results |-> <<>>,
        avalanche_result |-> avalanche_result]

\* the end of one pass of the for loop, and the locals of the next debt
AfterDebt(st, extra) ==
    LET debt == st.sorted_debts[st.idx]
        next == st.idx + 1
    IN [st EXCEPT !.total_months = Max(@, st.l.months),
                  !.total_interest = @ + st.l.interest_paid,
                  !.debt_results = Append(@, [id |-> debt.id,
                                              name |-> debt.name,
                                              months_to_payoff |-> st.l.months,
                                              total_interest |-> PointsToCents(st.l.interest_paid)]),
                  !.idx = next,
                  !.l = IF next <= Len(st.sorted_debts)
                        THEN DebtLocals(st.sorted_debts[next], extra, st.l.interest_paid)
                        ELSE None]

\* the dict _simulate_strategy returns
StrategyResult(st) ==
    [total_months |-> st.total_months,
     total_interest |-> PointsToCents(st.total_interest),
     debts |-> st.debt_results]

\* ---- optimize_debt_strategy ----
NoDebts ==
    [strategy |-> "none", message |-> "No debts to optimize",
     avalanche |-> None, snowball |-> None]

\* The two aggregates are float sums of the same two-decimal amounts taken in
\* the two strategies' orders.  A float sum depends on the order of its terms
\* in its last bits (0.1 + 0.2 + 0.3 is not 0.3 + 0.2 + 0.1), so two sums that
\* are equal in exact arithmetic can compare either way; `skew` is the sign of
\* (avalanche sum - snowball sum) the floats produce then.  Adding 0 is exact
\* and a + b = b + a, so orders that differ in that only cannot skew.
InterestsSummed(result) ==
    SelectSeq([i \in 1..Len(result.debts) |-> result.debts[i].total_interest],
              LAMBDA x : x # 0)

SameFloatSum(a, b) ==
    \/ a = b
    \/ /\ Len(a) >= 2
       /\ Len(b) = Len(a)
       /\ b[1] = a[2]
       /\ b[2] = a[1]
       /\ SubSeq(b, 3, Len(b)) = SubSeq(a, 3, Len(a))

SumOrderSkews(avalanche_result, snowball_result) ==
    IF SameFloatSum(InterestsSummed(avalanche_result), InterestsSummed(snowball_result))
    THEN {0} ELSE {-1, 0, 1}

\* "avalanche" if avalanche_total_interest < snowball_total_interest else "snowball"
RecommendedStrategy(avalanche_total_interest, snowball_total_interest, skew) ==
    IF \/ avalanche_total_interest < snowball_total_interest
       \/ (avalanche_total_interest = snowball_total_interest /\ skew < 0)
    THEN "avalanche" ELSE "snowball"

Optimization(avalanche_result, snowball_result, skew) ==
    LET avalanche_total_interest == SumField(avalanche_result.debts, "total_interest")
        snowball_total_interest == SumField(snowball_result.debts, "total_interest")
    IN [recommended_strategy |->
            RecommendedStrategy(avalanche_total_interest, snowball_total_interest, skew),
        avalanche |-> avalanche_result,
        snowball |-> snowball_result,
        \* round(savings, 2): a difference in the last bits rounds to 0
        interest_savings |-> Abs(avalanche_total_interest - snowball_total_interest)]


(***************************************************************************)
(* GoalProjector  (goal_projector.py)                                      *)
(*                                                                         *)
(* Dates are month numbers.  A quotient is held as the pair                *)
(* <<numerator, denominator>>, denominator > 0, and compared by            *)
(* cross-multiplication; x * 1.2 is 6x/5.                                  *)
(***************************************************************************)
\* a / b > c * 1.2  and  a / b > c, for needed = <<a, b>>
ExceedsWithMargin(needed, available) == 5 * needed[1] > 6 * available * needed[2]
Exceeds(needed, available) == needed[1] > available * needed[2]

\* _determine_status
DetermineStatusNoMargin(current, target, needed, available) ==
    IF current >= target THEN "achieved"
    ELSE IF Exceeds(needed, available) THEN "behind"
    ELSE "on-track"
DetermineStatus(current, target, needed, available) ==
    IF current >= target THEN "achieved"
    ELSE IF ExceedsWithMargin(needed, available) THEN "behind"
    ELSE IF Exceeds(needed, available) THEN "at-risk"
    ELSE "on-track"

\* _calculate_probability, in hundredths; ratio = available / needed, or 10
CalculateProbability(needed, available) ==
    IF available <= 0 THEN 10
    ELSE LET n == needed[1]
             d == needed[2]
             \* ratio >= k / 10
             AtLeast(k) == IF n > 0 THEN 10 * available * d >= k * n ELSE 100 >= k
         IN IF AtLeast(12) THEN 95
            ELSE IF AtLeast(10) THEN 85
            ELSE IF AtLeast(8) THEN 70
            ELSE IF AtLeast(6) THEN 50
            ELSE IF AtLeast(4) THEN 30
            ELSE 15

\* the estimated_months used when nothing is left over each month
NeverMonths == 999

\* calculate_goal_projection, called in month g.now
CalculateGoalProjection(g) ==
    LET months_remaining == Max(0, g.target_date - g.now)
        remaining_amount == g.target_amount - g.current_amount
        monthly_contribution_needed ==
            IF months_remaining > 0 THEN <<remaining_amount, months_remaining>>
            ELSE <<remaining_amount, 1>>
        available_monthly == g.monthly_income - g.monthly_expenses
        status == DetermineStatus(g.current_amount, g.target_amount,
                                  monthly_contribution_needed, available_monthly)
        estimated_months ==
            IF available_monthly > 0 THEN Ceil(remaining_amount, available_monthly)
            ELSE NeverMonths
    IN [target_amount |-> g.target_amount,
        current_amount |-> g.current_amount,
        remaining_amount |-> remaining_amount,
        target_date |-> g.target_date,
        months_remaining |-> months_remaining,
        monthly_contribution_needed |->
            Round(monthly_contribution_needed[1], monthly_contribution_needed[2]),
        available_monthly |-> available_monthly,
        estimated_completion |-> g.now + estimated_months,
        estimated_months |-> estimated_months,
        status |-> status,
        probability |-> CalculateProbability(monthly_contribution_needed, available_monthly),
        on_track |-> status \in {"on-track", "achieved"}]


(***************************************************************************)
(* GoalMilestoneAdjuster  (goal_milestone_adjuster.py)                     *)
(*                                                                         *)
(* Amounts are in cents.  A datetime is the number of its day, counted     *)
(* from 1970-01-01, at midnight.  A quotient is held as the pair           *)
(* <<numerator, denominator>>, denominator > 0.                            *)
(***************************************************************************)
\* MILESTONES = [0.25, 0.50, 0.75, 1.0], in percent
MILESTONES == <<25, 50, 75, 100>>

\* pct / 100 as a number of quarters
Quarters(pct) == pct \div 25

\* lookback_days: int = 90
SavingsLookbackDays == 90

\* estimated_date <= original_milestone_date + timedelta(days=30)
AtRiskDays == 30

\* the last year a datetime can hold
MAXYEAR == 9999

\* int(n / d), d > 0: toward zero
Trunc(n, d) == IF n >= 0 THEN n \div d ELSE -((-n) \div d)

\* the day number of a calendar date, and back
DaysFromCivil(year, month, day) ==
    LET y == IF month <= 2 THEN year - 1 ELSE year
        era == y \div 400
        yoe == y - era * 400
        mp == IF month > 2 THEN month - 3 ELSE month + 9
        doy == (153 * mp + 2) \div 5 + day - 1
        doe == yoe * 365 + yoe \div 4 - yoe \div 100 + doy
    IN era * 146097 + doe - 719468

CivilFromDays(date) ==
    LET z == date + 719468
        era == z \div 146097
        doe == z - era * 146097
        yoe == (doe - doe \div 1460 + doe \div 36524 - doe \div 146096) \div 365
        doy == doe - (365 * yoe + yoe \div 4 - yoe \div 100)
        mp == (5 * doy + 2) \div 153
        month == IF mp < 10 THEN mp + 3 ELSE mp - 9
    IN [year |-> yoe + era * 400 + (IF month <= 2 THEN 1 ELSE 0),
        month |-> month,
        day |-> doy - (153 * mp + 2) \div 5 + 1]

DaysInMonth(year, month) ==
    IF month = 2
    THEN IF year % 4 = 0 /\ (year % 100 # 0 \/ year % 400 = 0) THEN 29 ELSE 28
    ELSE IF month \in {4, 6, 9, 11} THEN 30 ELSE 31

\* the year of date + relativedelta(months=k), k >= 0
YearAfterMonths(date, k) ==
    LET c == CivilFromDays(date)
    IN c.year + (c.month - 1 + k) \div 12

\* date + relativedelta(months=k) raises ValueError: datetime.replace is
\* handed a year beyond MAXYEAR
MonthsOutOfRange(date, k) == YearAfterMonths(date, k) > MAXYEAR

\* date + relativedelta(months=k), k >= 0, when it does not raise: the same
\* day of the month k months on, or the last day of that month
AddMonths(date, k) ==
    LET c == CivilFromDays(date)
        total == c.month - 1 + k
        year == c.year + total \div 12
        month == (total % 12) + 1
    IN DaysFromCivil(year, month, Min(c.day, DaysInMonth(year, month)))

\* _analyze_savings_rate; savings_rate is in hundredths of a percent
AnalyzeSavingsRate(txs, cur) ==
    LET lookback_start == cur - SavingsLookbackDays
        InWindow(type) == {t \in txs : t.type = type /\ t.date >= lookback_start /\ t.date < cur}
        total_income == SumAmount(InWindow("income"))
        total_expenses == SumAmount(InWindow("expense"))
        total_savings == total_income - total_expenses
        months == SavingsLookbackDays \div 30
    IN [lookback_days |-> SavingsLookbackDays,
        total_income |-> total_income,
        total_expenses |-> total_expenses,
        total_savings |-> total_savings,
        monthly_income |-> Round(total_income, months),
        monthly_expenses |-> Round(total_expenses, months),
        monthly_savings |-> Round(total_savings, months),
        savings_rate |-> IF total_income > 0
                         THEN Round(total_savings * 10000, total_income) ELSE 0]

\* one pass of the loop of _generate_milestones; `raised` when the pass raises
Milestone(g, cur, monthly_savings, milestone_pct) ==
    LET q == Quarters(milestone_pct)
        days_left == g.target_date - cur
        achieved == 4 * g.current_amount >= q * g.target_amount
        \* remaining_to_milestone / monthly_savings
        months_to_milestone ==
            Trunc(q * g.target_amount - 4 * g.current_amount, 4 * monthly_savings)
        \* (milestone_pct - progress_pct / 100) / (1 - progress_pct / 100)
        time_ratio ==
            IF g.target_amount > 0
            THEN <<q * g.target_amount - 4 * g.current_amount,
                   4 * (g.target_amount - g.current_amount)>>
            ELSE <<q, 4>>
        days_to_milestone == Trunc(days_left * time_ratio[1], time_ratio[2])
        estimated_date ==
            IF achieved THEN cur
            ELSE IF monthly_savings > 0 THEN AddMonths(cur, months_to_milestone)
            ELSE cur + days_to_milestone
        \* target_date - days_left * (1 - milestone_pct), in quarters of a day
        original_milestone_date == 4 * g.target_date - days_left * (4 - q)
        raised == ~achieved /\ monthly_savings > 0
                     /\ MonthsOutOfRange(cur, months_to_milestone)
        status ==
            IF achieved THEN "achieved"
            ELSE IF raised THEN "none"
            ELSE IF 4 * estimated_date <= original_milestone_date THEN "on_track"
            ELSE IF 4 * estimated_date <= original_milestone_date + 4 * AtRiskDays
                 THEN "at_risk"
            ELSE "behind"
    IN [percentage |-> milestone_pct,
        amount |-> Round(q * g.target_amount, 4),
        estimated_date |-> IF raised THEN cur ELSE estimated_date,
        status |-> status,
        is_achieved |-> (status = "achieved"),
        raised |-> raised]

\* _generate_milestones: the list, or None when a pass raised
GenerateMilestones(g, cur, savings_analysis, on_track) ==
    Bind([i \in 1..Len(MILESTONES) |->
             Milestone(g, cur, savings_analysis.monthly_savings, MILESTONES[i])],
         LAMBDA milestones :
           IF \E i \in 1..Len(milestones) : milestones[i].raised
           THEN None
           ELSE [i \in 1..Len(milestones) |->
                    [percentage |-> milestones[i].percentage,
                     amount |-> milestones[i].amount,
                     estimated_date |-> milestones[i].estimated_date,
                     status |-> milestones[i].status,
                     is_achieved |-> milestones[i].is_achieved]])

\* the first if / elif / else of _generate_recommendations
ProgressAdviceNoElse(monthly_savings, required_monthly, on_track) ==
    LET owed == required_monthly[1] - monthly_savings * required_monthly[2]
        saved == monthly_savings * required_monthly[2]
    IN IF ~on_track /\ owed > 0
       THEN <<[template |-> "save_additional", amount |-> Round(owed, required_monthly[2])],
              [template |-> IF 5 * owed < saved THEN "small_adjustment"
                            ELSE IF 2 * owed < saved THEN "moderate_adjustment"
                            ELSE "significant_adjustment",
               amount |-> 0]>>
       ELSE IF on_track /\ 5 * saved > 6 * required_monthly[1]
       THEN <<[template |-> "great_progress", amount |-> Round(-owed, required_monthly[2])],
              [template |-> "move_up", amount |-> 0]>>
       ELSE <<>>
ProgressAdvice(monthly_savings, required_monthly, on_track) ==
    LET \* shortfall = required_monthly - monthly_savings, times the denominator
        owed == required_monthly[1] - monthly_savings * required_monthly[2]
        saved == monthly_savings * required_monthly[2]
    IN IF ~on_track /\ owed > 0
       THEN <<[template |-> "save_additional", amount |-> Round(owed, required_monthly[2])],
              \* shortfall < monthly_savings * 0.2, * 0.5
              [template |-> IF 5 * owed < saved THEN "small_adjustment"
                            ELSE IF 2 * owed < saved THEN "moderate_adjustment"
                            ELSE "significant_adjustment",
               amount |-> 0]>>
       \* monthly_savings > required_monthly * 1.2
       ELSE IF on_track /\ 5 * saved > 6 * required_monthly[1]
       THEN <<[template |-> "great_progress", amount |-> Round(-owed, required_monthly[2])],
              [template |-> "move_up", amount |-> 0]>>
       ELSE <<[template |-> "on_track", amount |-> 0]>>

\* the savings-rate part of _generate_recommendations
RateAdvice(savings_rate) ==
    IF savings_rate < 1000 THEN <<[template |-> "aim_for_20", amount |-> savings_rate]>>
    ELSE IF savings_rate >= 2000 THEN <<[template |-> "excellent_rate", amount |-> savings_rate]>>
    ELSE <<>>

\* _generate_recommendations
GenerateRecommendations(g, savings_analysis, required_monthly, on_track) ==
    ProgressAdvice(savings_analysis.monthly_savings, required_monthly, on_track)
        \o RateAdvice(savings_analysis.savings_rate)

\* the dict calculate_adaptive_milestones returns for the row g
AdaptiveDict(g, cur, savings_analysis) ==
    LET remaining_amount == g.target_amount - g.current_amount
        days_remaining == g.target_date - cur
        \* months_remaining = max(1, days_remaining / 30)
        months_remaining == IF days_remaining > 30 THEN <<days_remaining, 30>> ELSE <<1, 1>>
        \* remaining_amount / months_remaining
        required_monthly == <<remaining_amount * months_remaining[2], months_remaining[1]>>
        on_track == savings_analysis.monthly_savings * required_monthly[2] >= required_monthly[1]
    IN Bind(GenerateMilestones(g, cur, savings_analysis, on_track),
            LAMBDA milestones :
       IF milestones = None THEN [error |-> "year is out of range"]
       ELSE [goal_id |-> g.id,
             goal_name |-> g.name,
             target_amount |-> g.target_amount,
             current_amount |-> g.current_amount,
             progress_percentage |-> IF g.target_amount > 0
                                     THEN Round(g.current_amount * 10000, g.target_amount)
                                     ELSE 0,
             remaining_amount |-> remaining_amount,
             days_remaining |-> days_remaining,
             months_remaining |-> Round(months_remaining[1] * 10, months_remaining[2]),
             required_monthly_contribution |-> Round(required_monthly[1], required_monthly[2]),
             current_monthly_savings |-> savings_analysis.monthly_savings,
             on_track |-> on_track,
             milestones |-> milestones,
             recommendations |-> GenerateRecommendations(g, savings_analysis,
                                                         required_monthly, on_track),
             savings_analysis |-> savings_analysis])

\* calculate_adaptive_milestones: what it returns, or the error it raises
CalculateAdaptiveMilestones(rows, txs, id, cur) ==
    IF ~\E g \in rows : g.id = id THEN [error |-> "Goal not found"]
    ELSE Bind(<<CHOOSE g \in rows : g.id = id, AnalyzeSavingsRate(txs, cur)>>,
              LAMBDA found : AdaptiveDict(found[1], cur, found[2]))


(***************************************************************************)
(* Store snapshots and call arguments the forecaster is run on             *)
(***************************************************************************)
MaxCalls == 2       \* simulate_scenario calls per behaviour

Tx(id, type, amount, date) == [id |-> id, type |-> type, amount |-> amount, date |-> date]
Rec(id, type, amount, frequency, next_date, is_active) ==
    [id |-> id, type |-> type, amount |-> amount, frequency |-> frequency,
     next_date |-> next_date, is_active |-> is_active]

\* history: inside the 90-day window, on its first day, before it, and on current_date itself
TransactionSets ==
    { {},
      {Tx("t1", "income", 9000, -10)},
      {Tx("t2", "expense", 18000, -90)},
      {Tx("t3", "expense", 90000, -91), Tx("t4", "income", 90000, 0)},
      {Tx("t5", "expense", 27000, -1), Tx("t2", "expense", 18000, -90)} }

RecurringSets ==
    { {},
      {Rec("r1", "expense", 10000, "daily", 1, TRUE)},
      {Rec("r2", "income", 20000, "weekly", 0, TRUE)},
      {Rec("r1", "expense", 10000, "daily", 1, TRUE), Rec("r2", "income", 20000, "weekly", 0, TRUE)},
      {Rec("r3", "expense", 120000, "monthly", 3, TRUE), Rec("r4", "expense", 700, "weekly", 3, TRUE)},
      {Rec("r5", "expense", 5000, "biweekly", 32, TRUE), Rec("r6", "income", 5000, "daily", 2, FALSE)},
      \* an obligation of amount 0 (a free period) due today
      {Rec("r7", "expense", 0, "monthly", 0, TRUE)},
      \* one large bill that leaves less than a fifth of the largest starting balance
      {Rec("r8", "expense", 85000, "yearly", 2, TRUE)} }

\* no row; or yesterday's low-balance row and a row of another type made today
NotificationSets ==
    { <<>>,
      <<[type |-> "low_balance", created_at |-> -1, runway_days |-> 3, min_balance |-> 0],
        [type |-> "bill_reminder", created_at |-> 0, runway_days |-> 0, min_balance |-> 0]>> }

StartingBalances == {0, 5000, 100000}
ForecastDaysSet == {0, 5, 35}

Scenarios ==
    { [type |-> "income_change", p |-> [change_amount |-> 10000, change_type |-> "fixed"]],
      [type |-> "income_change", p |-> [change_amount |-> 10, change_type |-> "percentage"]],
      [type |-> "income_change", p |-> [change_amount |-> 10, change_type |-> "fixed"]],
      [type |-> "expense_change", p |-> [change_amount |-> -6000]],
      [type |-> "expense_change", p |-> [change_amount |-> 10000]],
      [type |-> "budget_cut", p |-> [category |-> "dining", reduction_percentage |-> 30,
                                     estimated_monthly_savings |-> 3000]],
      [type |-> "new_recurring", p |-> [amount |-> 1500, frequency |-> "weekly", type |-> "expense"]],
      [type |-> "new_recurring", p |-> [amount |-> 2500, frequency |-> "daily", type |-> "income"]],
      [type |-> "goal_acceleration", p |-> [additional_monthly_contribution |-> 20000]],
      [type |-> "new_goal", p |-> [change_amount |-> 10000]] }

\* p with one more key
With(p, key, value) ==
    [k \in DOMAIN p \cup {key} |-> IF k = key THEN value ELSE p[k]]

InitDebtIdle ==
    /\ debts = <<>>
    /\ extra_budget = 0
    /\ sched = None
    /\ strat = None
    /\ optimization = None

InitGoalIdle ==
    /\ goal = None
    /\ projection = None
    /\ goals = {}
    /\ goal_id = "none"
    /\ adaptive = None

InitForecastIdle ==
    /\ transactions = {}
    /\ recurring = {}
    /\ notifications = <<>>
    /\ today = 0
    /\ starting_balance = 0
    /\ forecast_days = 0
    /\ current_date = 0
    /\ scenario_type = "none"
    /\ parameters = None
    /\ forecast = None
    /\ scenario = None
    /\ results = <<>>
    /\ sessions = <<>>

InitForecast ==
    /\ transactions \in TransactionSets
    /\ recurring \in RecurringSets
    /\ notifications \in NotificationSets
    /\ today = 0
    /\ starting_balance \in StartingBalances
    /\ forecast_days \in ForecastDaysSet
    /\ current_date = 0
    /\ \E s \in Scenarios :
          /\ scenario_type = s.type
          /\ parameters = With(s.p, "starting_balance", starting_balance)
    /\ forecast = None
    /\ scenario = None
    /\ results = <<>>
    /\ sessions = <<>>
    /\ InitDebtIdle
    /\ InitGoalIdle

Store == [transactions |-> transactions, recurring |-> recurring,
          notifications |-> notifications]

\* a caller runs forecast_balance
ForecastBalanceCall ==
    \E res \in {ForecastBalance(transactions, recurring, starting_balance,
                                 forecast_days, current_date)} :
       \E after \in {StoreAfterForecast(Store, today, res)} :
          /\ forecast' = res
          /\ transactions' = after.transactions
          /\ recurring' = after.recurring
          /\ notifications' = after.notifications
          /\ UNCHANGED <<today, callVars, scenario, results, sessionVars, debtVars, goalVars>>

\* a caller runs simulate_scenario
SimulateScenarioCall ==
    /\ Len(results) < MaxCalls
    /\ \E out \in {SimulateScenario(Store, today, scenario_type, parameters,
                                     forecast_days, current_date)} :
          /\ results' = Append(results, out.returned)
          /\ scenario' = out.scenario
          /\ transactions' = out.store.transactions
          /\ recurring' = out.store.recurring
          /\ notifications' = out.store.notifications
    /\ UNCHANGED <<today, callVars, forecast, sessionVars, debtVars, goalVars>>

NextForecast ==
    \/ ForecastBalanceCall
    \/ SimulateScenarioCall

SpecForecast == InitForecast /\ [][NextForecast]_vars

\* forecast_balance alone, on horizons around its three checkpoints
CheckpointDaysSet == {29, 30, 59, 60, 89, 90}

InitCheckpoints ==
    /\ transactions \in TransactionSets
    /\ recurring \in RecurringSets
    /\ notifications \in NotificationSets
    /\ today = 0
    /\ starting_balance \in StartingBalances
    /\ forecast_days \in CheckpointDaysSet
    /\ current_date = 0
    /\ scenario_type = "none"
    /\ parameters = None
    /\ forecast = None
    /\ scenario = None
    /\ results = <<>>
    /\ sessions = <<>>
    /\ InitDebtIdle
    /\ InitGoalIdle

NextCheckpoints == ForecastBalanceCall

SpecCheckpoints == InitCheckpoints /\ [][NextCheckpoints]_vars

\* Requests of one user served at the same time.  Each request has its own
\* session and runs forecast_balance once (a forecast request) or twice (a
\* simulate_scenario request: the baseline, then the scenario's own run).  The
\* query of _create_low_balance_notification sees the rows committed so far;
\* the insert is committed in a later step of the same session.
NumSessions == 2

InitSessions ==
    /\ transactions \in TransactionSets
    /\ recurring \in RecurringSets
    /\ notifications \in NotificationSets
    /\ today = 0
    /\ starting_balance \in StartingBalances
    /\ forecast_days \in ForecastDaysSet
    /\ current_date = 0
    /\ scenario_type = "none"
    /\ parameters = None
    /\ forecast = None
    /\ scenario = None
    /\ results = <<>>
    /\ sessions \in [1..NumSessions -> {[runs |-> k, pc |-> "forecast", row |-> None] : k \in 1..2}]
    /\ InitDebtIdle
    /\ InitGoalIdle

\* forecast_balance up to the query of _create_low_balance_notification: the
\* run ends here unless the runway is critical and the query found no row
SessionForecast(s) ==
    /\ sessions[s].pc = "forecast"
    /\ sessions[s].runs > 0
    /\ \E res \in {ForecastBalance(transactions, recurring, starting_balance,
                                    forecast_days, current_date)} :
          IF res.runway_days <= CriticalRunway /\ ~ExistingToday(notifications, today)
          THEN sessions' = [sessions EXCEPT
                               ![s].pc = "insert",
                               ![s].row = LowBalanceRow(today, res.runway_days, res.min_balance)]
          ELSE sessions' = [sessions EXCEPT ![s].runs = @ - 1]
    /\ UNCHANGED <<storeVars, callVars, outVars, debtVars, goalVars>>

\* db.add(notification); db.commit(), and the rest of the run
SessionInsert(s) ==
    /\ sessions[s].pc = "insert"
    /\ notifications' = Append(notifications, sessions[s].row)
    /\ sessions' = [sessions EXCEPT ![s].pc = "forecast", ![s].row = None, ![s].runs = @ - 1]
    /\ UNCHANGED <<transactions, recurring, today, callVars, outVars, debtVars, goalVars>>

NextSessions ==
    \/ \E s \in 1..NumSessions : SessionForecast(s)
    \/ \E s \in 1..NumSessions : SessionInsert(s)

SpecSessions == InitSessions /\ [][NextSessions]_vars


(***************************************************************************)
(* Debts and schedules the optimizer is run on (amounts in cents here)     *)
(***************************************************************************)
Debt(id, remaining, rate, payment) ==
    [id |-> id, name |-> id, remainingAmount |-> Points(remaining),
     interestRate |-> rate, monthlyPayment |-> Points(payment)]

\* dA, dB and dD share their monthly payment and differ in rate; dC's payment
\* is below its first month's interest; dZ bears no interest
DebtLists ==
    LET dA == Debt("dA", 10000, 24, 2000)
        dB == Debt("dB", 4500, 12, 2000)
        dC == Debt("dC", 10000, 18, 100)
        dZ == Debt("dZ", 3000, 0, 1000)
        dD == Debt("dD", 7500, 6, 2000)
    IN { <<>>, <<dA>>, <<dB>>, <<dA, dB>>, <<dB, dA>>, <<dC>>, <<dZ, dA>>, <<dC, dB>>,
         <<dA, dB, dD>>, <<dD, dA, dZ>> }

ExtraBudgets == {0, Points(1000)}

\* principal, annual rate and monthly payment, in cents
ScheduleInputs ==
    { <<500000, 18, 20000>>,    \* 5000 at 18% paying 200
      <<10000, 24, 2000>>,
      <<3000, 0, 1000>>,
      <<10000, 12, 50>>,        \* payment below the interest
      <<10000, 12, 100>>,       \* payment equal to the interest
      <<10000, 12, 101>>,       \* payment above the interest, too small for 360 months
      <<0, 12, 1000>> }

InitDebt ==
    /\ \/ /\ \E in \in ScheduleInputs :
                sched = ScheduleStart(Points(in[1]), in[2], Points(in[3]))
          /\ debts = <<>>
          /\ extra_budget = 0
       \/ /\ sched = None
          /\ debts \in DebtLists
          /\ extra_budget \in ExtraBudgets
    /\ strat = None
    /\ optimization = None
    /\ InitForecastIdle
    /\ InitGoalIdle

\* calculate_repayment_schedule: one month of the loop
ScheduleMonth ==
    /\ sched # None
    /\ sched.status = "running"
    /\ sched.month < MaxMonths
    /\ sched.remaining_balance > 0
    /\ sched' = ScheduleStep(sched)
    /\ UNCHANGED <<debts, extra_budget, strat, optimization, forecastVars, goalVars>>

\* calculate_repayment_schedule: the loop is left and the schedule returned
ScheduleReturn ==
    /\ sched # None
    /\ sched.status = "running"
    /\ ~(sched.month < MaxMonths /\ sched.remaining_balance > 0)
    /\ sched' = [sched EXCEPT !.status = "returned"]
    /\ UNCHANGED <<debts, extra_budget, strat, optimization, forecastVars, goalVars>>

\* optimize_debt_strategy is entered: no debts, or the avalanche simulation starts
OptimizeCall ==
    /\ sched = None
    /\ strat = None
    /\ optimization = None
    /\ IF debts = <<>>
       THEN optimization' = NoDebts /\ strat' = strat
       ELSE /\ strat' = StrategyStart(debts, extra_budget, "avalanche", None)
            /\ optimization' = optimization
    /\ UNCHANGED <<debts, extra_budget, sched, forecastVars, goalVars>>

\* _simulate_strategy: one month of the while loop of the current debt
StrategyMonth ==
    /\ strat # None
    /\ strat.idx <= Len(strat.sorted_debts)
    /\ WhileGuard(strat.l)
    /\ strat' = [strat EXCEPT !.l = WhileStep(@)]
    /\ UNCHANGED <<debts, extra_budget, sched, optimization, forecastVars, goalVars>>

\* _simulate_strategy: the while loop of the current debt is left
StrategyDebtDone ==
    /\ strat # None
    /\ strat.idx <= Len(strat.sorted_debts)
    /\ ~WhileGuard(strat.l)
    /\ strat' = AfterDebt(strat, extra_budget)
    /\ UNCHANGED <<debts, extra_budget, sched, optimization, forecastVars, goalVars>>

\* _simulate_strategy returns: the snowball simulation starts, or
\* optimize_debt_strategy compares the two and returns
StrategyReturn ==
    /\ strat # None
    /\ strat.idx > Len(strat.sorted_debts)
    /\ IF strat.strategy = "avalanche"
       THEN /\ strat' = StrategyStart(debts, extra_budget, "snowball", StrategyResult(strat))
            /\ optimization' = optimization
       ELSE /\ \E skew \in SumOrderSkews(strat.avalanche_result, StrategyResult(strat)) :
                  optimization' = Optimization(strat.avalanche_result,
                                               StrategyResult(strat), skew)
            /\ strat' = None
    /\ UNCHANGED <<debts, extra_budget, sched, forecastVars, goalVars>>

NextDebt ==
    \/ ScheduleMonth
    \/ ScheduleReturn
    \/ OptimizeCall
    \/ StrategyMonth
    \/ StrategyDebtDone
    \/ StrategyReturn

SpecDebt == InitDebt /\ [][NextDebt]_vars

\* the calls run to their end: every pass of a loop is followed by the next
\* statement of the same thread
SpecDebtFair == SpecDebt /\ WF_vars(NextDebt)


(***************************************************************************)
(* Goals the projector is run on (amounts in cents)                        *)
(***************************************************************************)
TargetAmounts == {50000, 1000000}
CurrentAmounts == {0, 200000, 280000, 340000, 1000000, 1200000}
TargetDates == {-2, 0, 6, 12}
MonthlyIncomes == {0, 300000}
MonthlyExpenses == {100000, 160000, 200000, 300000, 350000}

InitGoal ==
    /\ \E t \in TargetAmounts, c \in CurrentAmounts, d \in TargetDates,
          i \in MonthlyIncomes, e \in MonthlyExpenses :
          goal = [target_amount |-> t, current_amount |-> c, target_date |-> d,
                  monthly_income |-> i, monthly_expenses |-> e, now |-> 0]
    /\ projection = None
    /\ goals = {}
    /\ goal_id = "none"
    /\ adaptive = None
    /\ InitForecastIdle
    /\ InitDebtIdle

\* a caller runs calculate_goal_projection
GoalProjectionCall ==
    /\ projection = None
    /\ projection' = CalculateGoalProjection(goal)
    /\ UNCHANGED <<goal, goals, goal_id, adaptive, forecastVars, debtVars>>

NextGoal == GoalProjectionCall

SpecGoal == InitGoal /\ [][NextGoal]_vars


(***************************************************************************)
(* Goals and savings histories the milestone adjuster is run on            *)
(***************************************************************************)
GoalRow(id, target_amount, current_amount, target_date) ==
    [id |-> id, name |-> id, target_amount |-> target_amount,
     current_amount |-> current_amount, target_date |-> target_date]

\* the days the adjuster is called on: the last of a month and the first of one
CallDates == {DaysFromCivil(2026, 1, 31), DaysFromCivil(2027, 3, 1)}

\* no savings; 100.00 a month; 0.01 a month; spending above income; a modest
\* rate with one row before the window; rows on the two edges of the window
SavingsHistories(cur) ==
    { {},
      {Tx("s1", "income", 90000, cur - 10), Tx("s2", "expense", 60000, cur - 20)},
      {Tx("s3", "income", 30000, cur - 30), Tx("s4", "expense", 29997, cur - 1)},
      {Tx("s5", "income", 30000, cur - 15), Tx("s6", "expense", 45000, cur - 40)},
      {Tx("s7", "income", 90000, cur - 10), Tx("s8", "expense", 79000, cur - 5),
       Tx("s9", "income", 50000, cur - 91)},
      {Tx("s10", "income", 60000, cur - 90), Tx("s11", "expense", 60000, cur)} }

GoalStores(cur) ==
    { {} }
    \cup { {GoalRow("g1", t, c, cur + d)} :
              t \in {40000, 100000},
              c \in {-5000, 0, 10000, 25000, 30000, 75000, 100000, 120000},
              d \in {-10, 20, 90, 360} }
    \cup { {GoalRow("g1", 0, 0, cur + 90)},
           {GoalRow("g2", 100000, 0, cur + 90)},
           {GoalRow("g2", 100000, 100000, cur + 90), GoalRow("g1", 100000, 50000, cur + 360)} }

InitMilestone ==
    /\ \E cur \in CallDates :
          /\ current_date = cur
          /\ today = cur
          /\ transactions \in SavingsHistories(cur)
          /\ goals \in GoalStores(cur)
    /\ goal_id = "g1"
    /\ adaptive = None
    /\ goal = None
    /\ projection = None
    /\ recurring = {}
    /\ notifications = <<>>
    /\ starting_balance = 0
    /\ forecast_days = 0
    /\ scenario_type = "none"
    /\ parameters = None
    /\ forecast = None
    /\ scenario = None
    /\ results = <<>>
    /\ sessions = <<>>
    /\ InitDebtIdle

\* a caller runs calculate_adaptive_milestones
AdaptiveMilestonesCall ==
    /\ adaptive = None
    /\ \E returned \in {CalculateAdaptiveMilestones(goals, transactions,
                                                     goal_id, current_date)} :
          adaptive' = returned
    /\ UNCHANGED <<goal, projection, goals, goal_id, forecastVars, debtVars>>

NextMilestone == AdaptiveMilestonesCall

SpecMilestone == InitMilestone /\ [][NextMilestone]_vars


(***************************************************************************)
(* Properties of the forecaster and the simulator                          *)
(***************************************************************************)
Called == forecast # None
Simulated == scenario # None

\* an occurrence by the frequency rule: next_date, then every fixed interval after it
DueByFrequency(rec, date) ==
    /\ date >= rec.next_date
    /\ (date - rec.next_date) % DaysBetween(rec.frequency) = 0

DueAmount(date, type) ==
    SumAmount({r \in recurring : r.is_active /\ r.type = type /\ DueByFrequency(r, date)})

Balances(daily) == [i \in 1..Len(daily) |-> daily[i].balance]

\* C1: forecast_balance (and with it simulate_scenario) never writes to storage:
\* every step leaves the stored transactions, recurring obligations and
\* notifications exactly as they were.
C1_StoreNeverWritten ==
    [][/\ transactions' = transactions
       /\ recurring' = recurring
       /\ notifications' = notifications]_vars

\* C2: the daily series of forecast_balance has exactly forecast_days + 1 points,
\* one per offset 0..forecast_days in increasing date order, and the modified
\* series of every scenario type has the same length.
C2_SeriesLength ==
    /\ Called =>
         /\ Len(forecast.daily_balances) = forecast_days + 1
         /\ \A i \in 1..Len(forecast.daily_balances) :
               forecast.daily_balances[i].date = current_date + (i - 1)
    /\ Simulated => Len(scenario.daily_balances) = forecast_days + 1

C2_Witness ==
    /\ Called
    /\ Simulated
    /\ forecast_days = 35
    /\ Len(scenario.daily_balances) = 36

\* C3: an active recurring obligation contributes its amount on every day of the
\* horizon that its frequency rule makes an occurrence; with starting balance
\* 1000, one expense of 100 per day, no income, no history and a 5-day horizon
\* the balances are 1000, 900, 800, 700, 600, 500 and runway is forecast_days + 1.
C3_DueByFrequencyRule ==
    Called =>
      /\ \A i \in 1..Len(forecast.daily_balances) :
            LET day == forecast.daily_balances[i]
            IN /\ DueAmount(day.date, "expense") > 0
                    => day.expenses = DueAmount(day.date, "expense")
               /\ DueAmount(day.date, "income") > 0
                    => day.income = DueAmount(day.date, "income")
      /\ ( /\ starting_balance = 100000
           /\ recurring = {Rec("r1", "expense", 10000, "daily", 1, TRUE)}
           /\ transactions = {}
           /\ forecast_days = 5 )
         => /\ Balances(forecast.daily_balances)
                 = <<100000, 90000, 80000, 70000, 60000, 50000>>
            /\ forecast.runway_days = forecast_days + 1

AllNetsNonNegative ==
    \A i \in 1..Len(forecast.daily_balances) : forecast.daily_balances[i].net >= 0

\* C4 as stated: starting balance >= 0 and every day's net >= 0 imply
\* runway_days = forecast_days + 1.
C4_RunwaySentinelFromZero ==
    (Called /\ starting_balance >= 0 /\ AllNetsNonNegative)
        => forecast.runway_days = forecast_days + 1

\* C4, amended: a starting balance above 0 and every day's net >= 0 imply
\* runway_days = forecast_days + 1.
C4_RunwaySentinel ==
    (Called /\ starting_balance > 0 /\ AllNetsNonNegative)
        => forecast.runway_days = forecast_days + 1

C4_Witness ==
    /\ Called
    /\ starting_balance > 0
    /\ AllNetsNonNegative
    /\ forecast_days = 35
    /\ \E i \in 1..Len(forecast.daily_balances) : forecast.daily_balances[i].net > 0
    /\ forecast.runway_days = 36

\* C9: two simulate_scenario calls with the same arguments on the same stored
\* transactions and recurring obligations return the same result, also when
\* the first call changed the store.
C9_SameResultTwice ==
    \A i, j \in 1..Len(results) : results[i] = results[j]

\* the second call has returned, and the first one inserted today's notification
C9_Witness ==
    /\ Len(results) = 2
    /\ ~Called
    /\ "comparison" \in DOMAIN results[2]
    /\ \E k \in 1..Len(notifications) :
          notifications[k].type = "low_balance" /\ notifications[k].created_at = today


(***************************************************************************)
(* Properties of the debt optimizer                                        *)
(***************************************************************************)
Optimized == optimization # None /\ "recommended_strategy" \in DOMAIN optimization

AvalancheInterest == SumField(optimization.avalanche.debts, "total_interest")
SnowballInterest == SumField(optimization.snowball.debts, "total_interest")

\* C5: optimize_debt_strategy recommends the strategy with the lower aggregate
\* interest, and avalanche when the two aggregate interests are equal.
C5_TiesFavorAvalanche ==
    Optimized =>
        optimization.recommended_strategy =
            IF AvalancheInterest <= SnowballInterest THEN "avalanche" ELSE "snowball"

\* a month of calculate_repayment_schedule, and of the optimizer's while loop
ScheduleMonthStep == sched # None /\ sched' # None /\ sched'.month = sched.month + 1
StrategyMonthStep ==
    /\ strat # None /\ strat' # None
    /\ strat'.strategy = strat.strategy
    /\ strat'.idx = strat.idx
    /\ strat.idx <= Len(strat.sorted_debts)

\* C6: in calculate_repayment_schedule and in the per-debt loop of the strategy
\* optimizer alike, the outstanding balance is >= 0 after every simulated month
\* and never increases from one month to the next.
C6_BalanceNeverIncreases ==
    [][/\ ScheduleMonthStep =>
            /\ sched'.remaining_balance >= 0
            /\ sched'.remaining_balance <= sched.remaining_balance
       /\ StrategyMonthStep =>
            /\ strat'.l.remaining >= 0
            /\ strat'.l.remaining <= strat.l.remaining]_vars

Returned == sched # None /\ sched.status = "returned"

\* the balance the last month of the schedule opened with, in cents
LastOpeningBalance ==
    IF Len(sched.schedule) = 1 THEN PointsToCents(sched.principal)
    ELSE sched.schedule[Len(sched.schedule) - 1].remaining_balance

\* C7: when calculate_repayment_schedule ends before its cap, the last entry has
\* remaining balance exactly 0: the final payment pays the balance the month
\* opened with and no more, the balance itself ends at 0, and no entry reports
\* a negative balance.
C7_FinalBalanceZero ==
    Returned =>
      /\ \A i \in 1..Len(sched.schedule) : sched.schedule[i].remaining_balance >= 0
      /\ (Len(sched.schedule) > 0 /\ Len(sched.schedule) < MaxMonths) =>
            /\ Last(sched.schedule).remaining_balance = 0
            /\ Last(sched.schedule).principal = LastOpeningBalance
            /\ sched.remaining_balance = 0

\* a schedule of several months whose last payment was larger than what was owed
C7_Witness ==
    /\ Returned
    /\ Len(sched.schedule) > 1
    /\ Len(sched.schedule) < MaxMonths
    /\ sched.annual_rate > 0
    /\ Last(sched.schedule).principal
          < Last(sched.schedule).payment - Last(sched.schedule).interest
    /\ Last(sched.schedule).remaining_balance = 0

SameMinimumDifferentRates ==
    \A i, j \in 1..Len(debts) :
        /\ debts[i].monthlyPayment = debts[j].monthlyPayment
        /\ i # j => debts[i].interestRate # debts[j].interestRate

Projected == projection # None

\* the required monthly contribution: what is left over the months remaining,
\* or all that is left when no month remains
Required ==
    IF goal.target_date - goal.now > 0
    THEN <<goal.target_amount - goal.current_amount, goal.target_date - goal.now>>
    ELSE <<goal.target_amount - goal.current_amount, 1>>

Available == goal.monthly_income - goal.monthly_expenses

\* C10: the status is 'achieved' whenever current >= target; otherwise 'behind'
\* if required > 1.2 x available, 'at-risk' if required > available but
\* <= 1.2 x available, and 'on-track' otherwise; target 10000, current 2000,
\* 6 months remaining and available 1000 give 'behind'.
C10_Status ==
    Projected =>
      /\ goal.current_amount >= goal.target_amount => projection.status = "achieved"
      /\ goal.current_amount < goal.target_amount =>
            /\ 5 * Required[1] > 6 * Available * Required[2]
                  => projection.status = "behind"
            /\ ( /\ Required[1] > Available * Required[2]
                 /\ 5 * Required[1] <= 6 * Available * Required[2] )
                  => projection.status = "at-risk"
            /\ Required[1] <= Available * Required[2]
                  => projection.status = "on-track"
      /\ ( /\ goal.target_amount = 1000000 /\ goal.current_amount = 200000
           /\ goal.target_date - goal.now = 6 /\ Available = 100000 )
            => projection.status = "behind"

\* a goal whose requirement lies between the surplus and 1.2 times the surplus
C10_Witness ==
    /\ Projected
    /\ goal.current_amount < goal.target_amount
    /\ Available > 0
    /\ Required[1] > Available * Required[2]
    /\ 5 * Required[1] <= 6 * Available * Required[2]
    /\ projection.status = "at-risk"


(***************************************************************************)
(* Properties of the scenarios                                             *)
(***************************************************************************)
IsError(r) == "error" \in DOMAIN r

\* the baseline forecast a returned scenario dict was compared with
BaselineOf(r) ==
    ForecastBalance(transactions, recurring, r.parameters.starting_balance,
                    r.forecast_days, current_date)

FixedIncomeRaise(r) ==
    /\ ~IsError(r)
    /\ r.scenario_type = "income_change"
    /\ Get(r.parameters, "change_type", "fixed") = "fixed"
    /\ Get(r.parameters, "change_amount", 0) > 0

EndsHigher(r) ==
    /\ r.scenario.ending_balance > r.baseline.ending_balance
    /\ r.comparison.is_improvement = TRUE

\* C11, as stated: every income_change scenario with change_type "fixed" and
\* change_amount > 0 ends with a scenario ending balance strictly above the
\* baseline ending balance, and comparison.is_improvement is True.
C11_FixedRaiseAlwaysImproves ==
    \A i \in 1..Len(results) : FixedIncomeRaise(results[i]) => EndsHigher(results[i])

\* C11, amended: such a scenario never ends below the baseline, is_improvement
\* is True exactly when it ends above it, and it does end above it whenever
\* the raise over the horizon, change_amount * (forecast_days + 1) / 30,
\* exceeds half a cent.
C11_FixedRaiseImproves ==
    \A i \in 1..Len(results) :
        LET r == results[i]
        IN FixedIncomeRaise(r) =>
             /\ r.scenario.ending_balance >= r.baseline.ending_balance
             /\ r.comparison.is_improvement
                   = (r.scenario.ending_balance > r.baseline.ending_balance)
             /\ (2 * r.parameters.change_amount * (r.forecast_days + 1) > 30)
                   => EndsHigher(r)

\* a raise of 100.00 a month over a 36-day series, and a raise of 0.10 a month
\* that shows after six days
C11_Witness ==
    /\ Len(results) = 2
    /\ FixedIncomeRaise(results[1])
    /\ EndsHigher(results[1])
    /\ \/ results[1].parameters.change_amount = 10000 /\ results[1].forecast_days = 35
       \/ results[1].parameters.change_amount = 10 /\ results[1].forecast_days = 5

ExpenseCut(r) ==
    /\ ~IsError(r)
    /\ r.scenario_type = "expense_change"
    /\ Get(r.parameters, "change_amount", 0) < 0

\* what the cut takes off the baseline's expenses over the horizon, in units:
\* a day gives up |change_amount| / 30, or all it had when it had less
RECURSIVE Reduction(_, _)
Reduction(daily, cut) ==
    IF daily = <<>> THEN 0
    ELSE Min(Fine(Head(daily).expenses), cut) + Reduction(Tail(daily), cut)

\* C12, as stated: every expense_change scenario with change_amount < 0 ends
\* with a scenario ending balance strictly above the baseline ending balance,
\* and comparison.is_improvement is True.
C12_ExpenseCutAlwaysImproves ==
    \A i \in 1..Len(results) : ExpenseCut(results[i]) => EndsHigher(results[i])

\* C12, amended: such a scenario never ends below the baseline, is_improvement
\* is True exactly when it ends above it, and it does end above it whenever
\* the expenses actually removed, the sum over the days of
\* min(expenses, |change_amount| / 30), exceed half a cent; a baseline without
\* expenses ends where it ended.
C12_ExpenseCutImproves ==
    \A i \in 1..Len(results) :
        LET r == results[i]
        IN ExpenseCut(r) =>
             \E removed \in {Reduction(BaselineOf(r).daily_balances,
                                       -r.parameters.change_amount * 10)} :
                /\ r.scenario.ending_balance >= r.baseline.ending_balance
                /\ r.comparison.is_improvement
                      = (r.scenario.ending_balance > r.baseline.ending_balance)
                /\ (removed > 150) => EndsHigher(r)
                /\ (removed = 0) => r.comparison.balance_difference = 0

\* a cut of 60.00 a month on a baseline that spends every day, and one on a
\* baseline whose days spend less than the cut
C12_Witness ==
    /\ Len(results) > 0
    /\ ExpenseCut(results[1])
    /\ EndsHigher(results[1])
    /\ results[1].forecast_days = 35
    /\ \E d \in 1..Len(scenario.daily_balances) : scenario.daily_balances[d].expenses > 0
    /\ \E d \in 1..Len(scenario.daily_balances) : scenario.daily_balances[d].expenses = 0


(***************************************************************************)
(* Properties of the goal milestone adjuster                               *)
(***************************************************************************)
AdaptiveCalled == adaptive # None
GoalExists == \E g \in goals : g.id = goal_id
TheGoal == CHOOSE g \in goals : g.id = goal_id

\* C13: for every existing goal calculate_adaptive_milestones returns exactly
\* four milestones, for 25, 50, 75 and 100 percent of the target in that
\* order; a milestone is marked achieved exactly when the current amount is
\* >= that percentage of the target, so the achieved ones form a prefix.
C13_FourMilestones ==
    (AdaptiveCalled /\ GoalExists) =>
        /\ ~IsError(adaptive)
        /\ Len(adaptive.milestones) = 4
        /\ \A i \in 1..4 :
              /\ adaptive.milestones[i].percentage = 25 * i
              /\ adaptive.milestones[i].is_achieved
                    = (100 * TheGoal.current_amount >= 25 * i * TheGoal.target_amount)
        /\ \A i, j \in 1..4 :
              (i < j /\ adaptive.milestones[j].is_achieved)
                  => adaptive.milestones[i].is_achieved

AdaptiveReturned == adaptive # None /\ ~IsError(adaptive)

\* C14: the recommendations list calculate_adaptive_milestones returns holds
\* at least one entry, whatever the goal and the savings history: its first
\* entry is the one the not-on-track, ahead-of-plan or on-track branch wrote.
C14_SomeRecommendation ==
    AdaptiveReturned =>
        /\ Len(adaptive.recommendations) >= 1
        /\ adaptive.recommendations[1].template
              = IF ~adaptive.on_track THEN "save_additional"
                ELSE IF 5 * adaptive.current_monthly_savings * Max(adaptive.days_remaining, 30)
                          > 6 * adaptive.remaining_amount * 30
                     THEN "great_progress"
                ELSE "on_track"

\* an on-track goal with a savings rate between 10 and 20 percent: the
\* on-track branch wrote the only entry
C14_Witness ==
    /\ AdaptiveReturned
    /\ adaptive.on_track
    /\ adaptive.remaining_amount > 0
    /\ adaptive.savings_analysis.savings_rate >= 1000
    /\ adaptive.savings_analysis.savings_rate < 2000
    /\ Len(adaptive.recommendations) = 1


(***************************************************************************)
(* Further properties of the forecaster and the simulator                  *)
(***************************************************************************)
\* the active obligations of one direction that _is_due_on_date finds due
DueOn(date, type) ==
    {r \in ActiveRecurring(recurring) : IsDueOnDate(r, date) /\ r.type = type}

HistoricalAverage(type) == HistoricalDailyAverage(transactions, current_date, type)

\* C15: for every day of a forecast, and for income and expenses each, the
\* day's figure is the sum of the obligations of that direction due that day
\* when at least one is due, and the historical daily average otherwise.
C15_DueTakesPrecedence ==
    Called =>
        \A d \in 1..Len(forecast.daily_balances) :
            LET day == forecast.daily_balances[d]
            IN /\ day.income = IF DueOn(day.date, "income") # {}
                               THEN SumAmount(DueOn(day.date, "income"))
                               ELSE HistoricalAverage("income")
               /\ day.expenses = IF DueOn(day.date, "expense") # {}
                                 THEN SumAmount(DueOn(day.date, "expense"))
                                 ELSE HistoricalAverage("expense")

\* balance = previous balance + income - expenses, from `start` before day 0
Recurrence(daily, start) ==
    \A d \in 1..Len(daily) :
        daily[d].balance
            = (IF d = 1 THEN start ELSE daily[d - 1].balance)
              + daily[d].income - daily[d].expenses

\* C16: in every forecast the balance at offset 0 is starting balance + day-0
\* income - day-0 expenses and the balance at every later offset is the
\* previous balance + the day's income - the day's expenses; the same holds,
\* from the same starting balance, for the modified series of every scenario.
C16_RunningBalance ==
    /\ Called => Recurrence(forecast.daily_balances, starting_balance)
    /\ Simulated => Recurrence(scenario.daily_balances, starting_balance)

\* runway is the index of the first day with balance <= 0, or n + 1 without one
RunwayRule(daily, runway_days, n) ==
    /\ runway_days >= 0
    /\ runway_days <= n + 1
    /\ (runway_days = n + 1) <=> (\A d \in 1..Len(daily) : daily[d].balance > 0)
    /\ runway_days <= n =>
          /\ daily[runway_days + 1].balance <= 0
          /\ \A d \in 1..runway_days : daily[d].balance > 0

\* C17: in the baseline forecast and in every scenario's modified forecast,
\* runway_days is the index of the first day whose balance is <= 0, and is
\* forecast_days + 1 exactly when no day has balance <= 0; so it lies in
\* 0..forecast_days + 1.
C17_Runway ==
    /\ Called => RunwayRule(forecast.daily_balances, forecast.runway_days, forecast_days)
    /\ Simulated => RunwayRule(scenario.daily_balances, scenario.runway_days, forecast_days)

\* a baseline that never runs out and a scenario of it that does, after day 0,
\* on a day whose balance is exactly 0 or below
C17_Witness ==
    /\ Called
    /\ Simulated
    /\ forecast.runway_days = forecast_days + 1
    /\ scenario.runway_days > 0
    /\ scenario.runway_days <= forecast_days

\* C18: forecast_balance emits at most one warning: a "critical" one carrying
\* the runway exactly when runway_days <= 30, a "warning" one exactly when
\* runway_days > 30 and the minimum balance is below 20% of the starting
\* balance, and none otherwise.
C18_OneWarning ==
    Called =>
        LET w == forecast.warnings
        IN /\ Len(w) <= 1
           /\ (forecast.runway_days <= 30)
                 <=> (Len(w) = 1 /\ w[1].type = "critical")
           /\ (Len(w) = 1 /\ w[1].type = "critical")
                 => w[1].days_until = forecast.runway_days
           /\ (forecast.runway_days > 30 /\ 5 * forecast.min_balance < starting_balance)
                 <=> (Len(w) = 1 /\ w[1].type = "warning")

\* a 35-day forecast that stays above zero and dips below a fifth of its start
C18_Witness ==
    /\ Called
    /\ forecast.runway_days > 30
    /\ forecast.min_balance > 0
    /\ Len(forecast.warnings) = 1
    /\ forecast.warnings[1].type = "warning"
    /\ forecast.warnings[1].min_balance = forecast.min_balance

\* C19: a critical low-balance warning is produced only when some day of the
\* projected series has balance <= 0; a forecast whose balance stays positive
\* on every day never produces one, whatever forecast_days is.
C19_CriticalOnlyWhenDepleted ==
    Called =>
        ((\E i \in 1..Len(forecast.warnings) : forecast.warnings[i].type = "critical")
            => \E d \in 1..Len(forecast.daily_balances) :
                   forecast.daily_balances[d].balance <= 0)


(***************************************************************************)
(* Further properties of the debt optimizer                                *)
(***************************************************************************)
\* C20: for every non-empty debt list and every extra budget the avalanche and
\* snowball simulations report the same aggregate interest and the same total
\* months, so interest_savings is 0 and the recommendation does not depend on
\* the debts: it is what the comparison of two equal aggregates gives.
C20_StrategiesAgree ==
    Optimized =>
        /\ optimization.avalanche.total_interest = optimization.snowball.total_interest
        /\ optimization.avalanche.total_months = optimization.snowball.total_months
        /\ AvalancheInterest = SnowballInterest
        /\ optimization.interest_savings = 0
        /\ optimization.recommended_strategy = "snowball"


(***************************************************************************)
(* Further properties of the repayment schedule and the strategies         *)
(***************************************************************************)
\* the entry a month of calculate_repayment_schedule appends
NewEntry == Last(sched'.schedule)

\* C21: each month of calculate_repayment_schedule computes interest =
\* balance x (rate/100/12), principal_paid = min(payment - interest, balance),
\* 0 when the payment does not cover the interest, and new balance = balance -
\* principal_paid; 5000 at 18% paying 200 gives interest 75.00, principal
\* 125.00 and remaining balance 4875.00 in month 1.
C21_MonthFormula ==
    /\ [][ScheduleMonthStep =>
            LET balance == sched.remaining_balance
                interest == MonthlyInterest(balance, sched.annual_rate)
                principal_paid == IF sched.payment < interest THEN 0
                                  ELSE Min(sched.payment - interest, balance)
            IN /\ sched'.remaining_balance = balance - principal_paid
               /\ Len(sched'.schedule) = Len(sched.schedule) + 1
               /\ NewEntry.month = sched.month + 1
               /\ NewEntry.interest = PointsToCents(interest)
               /\ NewEntry.principal = PointsToCents(principal_paid)
               /\ NewEntry.remaining_balance = PointsToCents(balance - principal_paid)]_vars
    /\ [](( /\ sched # None
            /\ sched.principal = Points(500000)
            /\ sched.annual_rate = 18
            /\ sched.payment = Points(20000)
            /\ Len(sched.schedule) >= 1 ) =>
                /\ sched.schedule[1].interest = 7500
                /\ sched.schedule[1].principal = 12500
                /\ sched.schedule[1].remaining_balance = 487500)

\* the example's schedule has been run to its end
C21_Witness ==
    /\ Returned
    /\ sched.principal = Points(500000)
    /\ sched.annual_rate = 18
    /\ sched.payment = Points(20000)
    /\ Len(sched.schedule) > 1
    /\ sched.schedule[1].remaining_balance = 487500


\* the call that was made has returned
DebtCallReturned == IF sched # None THEN Returned ELSE optimization # None

DebtById(id) == debts[CHOOSE i \in 1..Len(debts) : debts[i].id = id]

\* a result lists every debt once, in the strategy's order, and its
\* total_months is the largest months_to_payoff
ListedInOrder(result, strategy) ==
    /\ Len(result.debts) = Len(debts)
    /\ \A k \in 1..Len(debts) : \E i \in 1..Len(result.debts) : result.debts[i].id = debts[k].id
    /\ \A i \in 1..Len(result.debts) : result.total_months >= result.debts[i].months_to_payoff
    /\ \E i \in 1..Len(result.debts) : result.total_months = result.debts[i].months_to_payoff
    /\ \A i, j \in 1..Len(result.debts) :
          i < j => IF strategy = "avalanche"
                   THEN DebtById(result.debts[i].id).interestRate
                            >= DebtById(result.debts[j].id).interestRate
                   ELSE DebtById(result.debts[i].id).remainingAmount
                            <= DebtById(result.debts[j].id).remainingAmount

\* the loop of a debt is entered, and left
DebtStarts ==
    /\ strat' # None
    /\ strat'.idx <= Len(strat'.sorted_debts)
    /\ (strat = None \/ strat.idx # strat'.idx \/ strat.strategy # strat'.strategy)
DebtEnds ==
    /\ strat # None /\ strat' # None
    /\ strat'.strategy = strat.strategy
    /\ strat'.idx = strat.idx + 1

\* Every debt starts from its own balance, rate and monthly payment plus the
\* whole extra budget, with nothing paid yet; a month changes its locals by
\* what they were and nothing else; its entry reports the locals it ended with,
\* and the totals take the maximum and the sum of them.
SimulatedIndependently ==
    /\ DebtStarts =>
          LET debt == strat'.sorted_debts[strat'.idx]
          IN strat'.l = [remaining |-> debt.remainingAmount,
                         rate |-> debt.interestRate,
                         payment |-> debt.monthlyPayment + extra_budget,
                         months |-> 0,
                         interest_paid |-> 0]
    /\ StrategyMonthStep =>
          LET interest == MonthlyInterest(strat.l.remaining, strat.l.rate)
          IN strat'.l = [remaining |-> strat.l.remaining
                                         - Min(strat.l.payment - interest, strat.l.remaining),
                         rate |-> strat.l.rate,
                         payment |-> strat.l.payment,
                         months |-> strat.l.months + 1,
                         interest_paid |-> strat.l.interest_paid + interest]
    /\ DebtEnds =>
          /\ Last(strat'.debt_results).id = strat.sorted_debts[strat.idx].id
          /\ Last(strat'.debt_results).months_to_payoff = strat.l.months
          /\ Last(strat'.debt_results).total_interest = PointsToCents(strat.l.interest_paid)
          /\ strat'.total_months = Max(strat.total_months, strat.l.months)
          /\ strat'.total_interest = strat.total_interest + strat.l.interest_paid
    /\ (strat # None /\ strat.idx > Len(strat.sorted_debts)) =>
          LET result == IF strat.strategy = "avalanche"
                        THEN strat'.avalanche_result ELSE optimization'.snowball
          IN /\ result.total_interest = PointsToCents(strat.total_interest)
             /\ result.total_months = strat.total_months
             /\ result.debts = strat.debt_results

IsPercentageOf(pct, difference, baseline_end) ==
    2 * Abs(pct * baseline_end - difference * 10000) <= Abs(baseline_end)

\* C24: the comparison reports balance_difference = scenario ending balance -
\* baseline ending balance, runway_difference_days = scenario runway - baseline
\* runway, is_improvement = (balance difference > 0) and the percentage change =
\* difference / baseline ending balance x 100, 0 when the baseline ending balance
\* is 0; the recommendation is the 'improves' template exactly when
\* is_improvement is True.
C24_Comparison ==
    \A k \in 1..Len(results) :
        ~IsError(results[k]) =>
            LET r == results[k]
                difference == r.scenario.ending_balance - r.baseline.ending_balance
            IN /\ r.comparison.balance_difference = difference
               /\ r.comparison.runway_difference_days
                     = r.scenario.runway_days - r.baseline.runway_days
               /\ r.comparison.is_improvement = (difference > 0)
               /\ IF r.baseline.ending_balance = 0
                  THEN r.comparison.balance_change_percentage = 0
                  ELSE IsPercentageOf(r.comparison.balance_change_percentage,
                                      difference, r.baseline.ending_balance)
               /\ (r.recommendation.template = "improves") = r.comparison.is_improvement
               /\ r.recommendation.template \in {"improves", "reduces"}

\* a call compared an improvement that also lengthens the runway
C24_Witness ==
    \E k \in 1..Len(results) :
        /\ ~IsError(results[k])
        /\ results[k].comparison.is_improvement
        /\ results[k].comparison.balance_change_percentage # 0
        /\ results[k].comparison.runway_difference_days > 0
        /\ results[k].recommendation.template = "improves"


(***************************************************************************)
(* Properties of the summary rollups                                       *)
(***************************************************************************)
\* the rollups of checkpoint P in the forecast
RollupsOf(P) ==
    SelectSeq(forecast.summary_periods, LAMBDA s : s.period = P)

\* sum of field f over offsets 0..P of the series
RECURSIVE SumOverOffsets(_, _, _)
SumOverOffsets(daily, f, P) ==
    IF P < 0 THEN 0 ELSE daily[P + 1][f] + SumOverOffsets(daily, f, P - 1)

\* C25: for each checkpoint P in {30, 60, 90}, forecast_balance emits a summary
\* rollup exactly when P <= forecast_days; its ending balance is the balance at
\* offset P, its net change that balance minus the starting balance, and its
\* cumulative income and expenses the sums over offsets 0..P, so ending balance
\* = starting balance + total income - total expenses.
C25_Rollups ==
    Called =>
        /\ \A k \in 1..Len(forecast.summary_periods) :
               forecast.summary_periods[k].period \in {30, 60, 90}
        /\ \A P \in {30, 60, 90} :
               /\ Len(RollupsOf(P)) = IF P <= forecast_days THEN 1 ELSE 0
               /\ P <= forecast_days =>
                     LET s == RollupsOf(P)[1]
                     IN /\ s.ending_balance = forecast.daily_balances[P + 1].balance
                        /\ s.net_change = s.ending_balance - starting_balance
                        /\ s.total_income
                              = SumOverOffsets(forecast.daily_balances, "income", P)
                        /\ s.total_expenses
                              = SumOverOffsets(forecast.daily_balances, "expenses", P)
                        /\ s.ending_balance
                              = starting_balance + s.total_income - s.total_expenses

\* a 90-day forecast with income and expenses, rolled up at all three checkpoints
C25_Witness ==
    /\ Called
    /\ forecast_days = 90
    /\ Len(forecast.summary_periods) = 3
    /\ forecast.summary_periods[3].total_income > forecast.summary_periods[1].total_income
    /\ forecast.summary_periods[3].total_expenses > forecast.summary_periods[1].total_expenses
    /\ forecast.summary_periods[3].net_change # 0


(***************************************************************************)
(* Properties of the expense-side scenarios                                *)
(***************************************************************************)
ExpenseSide == scenario_type \in {"expense_change", "budget_cut", "goal_acceleration"}

\* the monthly change of expenses the call asks for, in cents
MonthlyExpenseChange ==
    CASE scenario_type = "expense_change" -> Get(parameters, "change_amount", 0)
      [] scenario_type = "budget_cut" -> -Get(parameters, "estimated_monthly_savings", 0)
      [] scenario_type = "goal_acceleration" ->
             Get(parameters, "additional_monthly_contribution", 0)

\* max(0, baseline expense + change / 30), in units of 1/300 cent
FlooredExpense(expenses, change) ==
    IF 300 * expenses + 10 * change < 0 THEN 0 ELSE 300 * expenses + 10 * change

\* C26: in every expense-side scenario (expense_change, and budget_cut and
\* goal_acceleration, which reduce to it) each day's adjusted expense is
\* max(0, baseline expense of that day + change_amount / 30), reported to the
\* nearest cent, so no day of the modified series has a negative expense.
C26_ExpenseFloor ==
    (Simulated /\ ExpenseSide) =>
        \E base \in {ForecastBalance(transactions, recurring, starting_balance,
                                     forecast_days, current_date).daily_balances} :
            /\ Len(scenario.daily_balances) = Len(base)
            /\ \A d \in 1..Len(base) :
                  /\ scenario.daily_balances[d].expenses >= 0
                  /\ 2 * Abs(300 * scenario.daily_balances[d].expenses
                               - FlooredExpense(base[d].expenses, MonthlyExpenseChange)) <= 300

\* a reduction larger than what some day spends, on a series that also has a
\* day spending more than the reduction
C26_Witness ==
    /\ Simulated
    /\ ExpenseSide
    /\ MonthlyExpenseChange < 0
    /\ \E base \in {ForecastBalance(transactions, recurring, starting_balance,
                                    forecast_days, current_date).daily_balances} :
          /\ \E d \in 1..Len(base) :
                /\ 300 * base[d].expenses + 10 * MonthlyExpenseChange < 0
                /\ scenario.daily_balances[d].expenses = 0
          /\ \E d \in 1..Len(base) :
                /\ scenario.daily_balances[d].expenses > 0
                /\ scenario.daily_balances[d].expenses < base[d].expenses


(***************************************************************************)
(* Further properties of the goal milestone adjuster                       *)
(***************************************************************************)
\* C27: the progress_percentage reported by calculate_adaptive_milestones is
\* always between 0 and 100 (here in hundredths of a percent), also when the
\* stored current amount exceeds the target or is negative.
C27_ProgressClamped ==
    AdaptiveReturned =>
        /\ adaptive.progress_percentage >= 0
        /\ adaptive.progress_percentage <= 10000


(***************************************************************************)
(* Properties of the low-balance notification                              *)
(***************************************************************************)
LowBalanceRowsToday ==
    {i \in 1..Len(notifications) :
        notifications[i].type = "low_balance" /\ notifications[i].created_at >= today}

\* C28: after any sequence of forecast_balance and simulate_scenario calls of
\* one user within one UTC day, calls served at the same time included, the
\* store holds at most one LOW_BALANCE notification created that day.
C28_OnePerDay == Cardinality(LowBalanceRowsToday) <= 1


(***************************************************************************)
(* Properties of the errors of simulate_scenario                           *)
(***************************************************************************)
\* a simulate_scenario call with a scenario type that is not one of the five
UnknownTypeCall ==
    /\ scenario_type \notin ScenarioTypes
    /\ Len(results') = Len(results) + 1

\* C29: simulate_scenario called with a scenario type other than income_change,
\* expense_change, budget_cut, new_recurring or goal_acceleration fails with an
\* 'Unknown scenario type' error, returns no result, and leaves the store
\* exactly as it was before the call.
C29_UnknownTypeLeavesStore ==
    [][UnknownTypeCall =>
          /\ IsError(Last(results'))
          /\ Last(results').error = "Unknown scenario type"
          /\ scenario' = None
          /\ transactions' = transactions
          /\ recurring' = recurring
          /\ notifications' = notifications]_vars


(***************************************************************************)
(* Further properties of the goal projector                                *)
(***************************************************************************)
\* C30: the goal projector's estimated_months is never negative: it is
\* ceil(remaining / available) >= 0 when available > 0 and 999 when available
\* <= 0, so the estimated completion is never earlier than the call.
C30_EstimateNotNegative ==
    Projected =>
        /\ projection.estimated_months >= 0
        /\ projection.estimated_completion >= goal.now
        /\ projection.available_monthly <= 0 => projection.estimated_months = 999
        /\ projection.available_monthly > 0 =>
              /\ projection.estimated_months * projection.available_monthly
                    >= projection.remaining_amount
              /\ (projection.estimated_months - 1) * projection.available_monthly
                    < projection.remaining_amount

====
